---- MODULE Spec2Model ----
(***************************************************************************)
(* A model of Poorman's hand-written HTTP/1.1 server (httpServer/go):      *)
(* the accept loop of main, the per-connection goroutine handleAccept,     *)
(* the request parser NewRequest, the dispatcher Router.Mux and the three  *)
(* handlers of Service.  A byte string is a sequence of one-character      *)
(* strings; a Go map[string]string is a function whose domain is a set of  *)
(* such sequences.                                                         *)
(***************************************************************************)
EXTENDS Integers, Sequences, FiniteSets, TLC

VARIABLES
    crash,      \* 0 while the process runs; the connection whose goroutine
                \* panicked, or MainPanic, once a panic has ended the process
    pc,         \* per connection: where its handling stands
    stream,     \* per connection: the byte segments its client will send
    sent,       \* per connection: how many of the segments have arrived
    closedW,    \* per connection: the client has shut its sending side (EOF)
    req,        \* per connection: what NewRequest returned to handleAccept
    events,     \* per connection: the Write and Close calls made on the conn
    logs,       \* per connection: what its goroutine passed to log.Println
    asset,      \* per connection: what os.ReadFile met in its handler
    Store,      \* per connection: the Store of the Service that Mux built
    ran,        \* per connection: the handlers that Mux called
    input,      \* harness: the byte stream handed to NewRequest, or the
                \* arguments handed to NewResponse
    result      \* harness: what the function returned for input

vars == <<crash, pc, stream, sent, closedW, req, events, logs, asset, Store, ran,
          input, result>>

serverVars == <<crash, pc, stream, sent, closedW, req, events, logs, asset, Store, ran>>

(***************************************************************************)
(* Bounds of the model.                                                    *)
(***************************************************************************)
MaxConns == 2

MaxHeaders == 2

MaxAvail == 3

(***************************************************************************)
(* Bytes and strings.                                                      *)
(***************************************************************************)
CR == "\r"

LF == "\n"

SP == " "

CRLF == <<CR, LF>>

\* unicode.IsSpace over the ASCII range, as strings.TrimSpace uses it
WhiteSpace == {" ", "\t", "\n", "\r", "\f"}

Digits == {"0", "1", "2", "3", "4", "5", "6", "7", "8", "9"}

DigitVal(ch) ==
    CASE ch = "0" -> 0 [] ch = "1" -> 1 [] ch = "2" -> 2 [] ch = "3" -> 3
      [] ch = "4" -> 4 [] ch = "5" -> 5 [] ch = "6" -> 6 [] ch = "7" -> 7
      [] ch = "8" -> 8 [] ch = "9" -> 9

DigitChar(d) ==
    CASE d = 0 -> "0" [] d = 1 -> "1" [] d = 2 -> "2" [] d = 3 -> "3"
      [] d = 4 -> "4" [] d = 5 -> "5" [] d = 6 -> "6" [] d = 7 -> "7"
      [] d = 8 -> "8" [] d = 9 -> "9"

Slice(s, from, to) == [i \in 1..(IF to >= from THEN to - from + 1 ELSE 0) |-> s[from + i - 1]]

\* the index of the first ch in s at or after from, 0 when there is none
IndexFrom(s, from, ch) ==
    IF \E i \in from..Len(s) : s[i] = ch
    THEN CHOOSE i \in from..Len(s) : s[i] = ch /\ \A j \in from..(i - 1) : s[j] # ch
    ELSE 0

HasSuffix(s, suf) ==
    /\ Len(s) >= Len(suf)
    /\ Slice(s, Len(s) - Len(suf) + 1, Len(s)) = suf

HasPrefix(s, pre) ==
    /\ Len(s) >= Len(pre)
    /\ Slice(s, 1, Len(pre)) = pre

\* a variant that strips the line feed alone
TrimSuffixLF(s, suf) ==
    IF s # <<>> /\ s[Len(s)] = LF THEN Slice(s, 1, Len(s) - 1) ELSE s

\* strings.TrimSuffix
TrimSuffix(s, suf) ==
    IF HasSuffix(s, suf) THEN Slice(s, 1, Len(s) - Len(suf)) ELSE s

\* strings.TrimSpace
TrimSpace(s) ==
    LET keep == {i \in 1..Len(s) : s[i] \notin WhiteSpace}
    IN  IF keep = {} THEN <<>>
        ELSE LET lo == CHOOSE i \in keep : \A j \in keep : i <= j
                 hi == CHOOSE i \in keep : \A j \in keep : j <= i
             IN  Slice(s, lo, hi)

\* strings.Split(s, sep) for a one-byte separator: every separator cuts
RECURSIVE Split(_, _)
Split(s, sep) ==
    LET i == IndexFrom(s, 1, sep)
    IN  IF i = 0 THEN <<s>>
        ELSE <<Slice(s, 1, i - 1)>> \o Split(Slice(s, i + 1, Len(s)), sep)

\* strings.SplitN(s, sep, 2): cut at the first separator only
SplitN(s, sep) ==
    LET i == IndexFrom(s, 1, sep)
    IN  IF i = 0 THEN <<s>>
        ELSE <<Slice(s, 1, i - 1), Slice(s, i + 1, Len(s))>>

RECURSIVE DigitsValue(_)
DigitsValue(s) ==
    IF s = <<>> THEN 0
    ELSE 10 * DigitsValue(Slice(s, 1, Len(s) - 1)) + DigitVal(s[Len(s)])

\* strconv.Atoi: an optional sign, then one or more decimal digits
Atoi(s) ==
    LET signed == s # <<>> /\ s[1] \in {"+", "-"}
        ds == IF signed THEN Slice(s, 2, Len(s)) ELSE s
    IN  IF ds = <<>> \/ \E i \in 1..Len(ds) : ds[i] \notin Digits
        THEN [ok |-> FALSE, val |-> 0]
        ELSE [ok |-> TRUE,
              val |-> IF signed /\ s[1] = "-" THEN 0 - DigitsValue(ds) ELSE DigitsValue(ds)]

RECURSIVE Itoa(_)
Itoa(n) ==
    IF n < 10 THEN <<DigitChar(n)>> ELSE Itoa(n \div 10) \o <<DigitChar(n % 10)>>

(***************************************************************************)
(* Go maps.                                                                *)
(***************************************************************************)
EmptyMap == [k \in {} |-> <<>>]

MapPut(m, key, val) ==
    [k \in (DOMAIN m) \cup {key} |-> IF k = key THEN val ELSE m[k]]

(***************************************************************************)
(* The byte stream of a connection as the reader sees it: the bytes that   *)
(* have arrived (data) and how the stream stands after them: "open" (more  *)
(* may come, a read past data blocks), "eof" (the peer shut its sending    *)
(* side) or "reset" (the read fails with an error other than io.EOF).      *)
(***************************************************************************)
Ends == {"open", "eof", "reset"}

\* bufio.Reader.ReadString('\n') at position pos
ReadString(data, pos, end) ==
    LET i == IndexFrom(data, pos, LF)
    IN  IF i # 0 THEN [kind |-> "line", line |-> Slice(data, pos, i), pos |-> i + 1]
        ELSE IF end = "open" THEN [kind |-> "block", line |-> <<>>, pos |-> pos]
        ELSE [kind |-> end, line |-> Slice(data, pos, Len(data)), pos |-> Len(data) + 1]

\* a variant that hands back what it has at the end of the stream, as Read would
ReadPartial(data, pos, n, end) ==
    LET have == Len(data) - pos + 1
    IN  IF have >= n THEN [kind |-> "full", body |-> Slice(data, pos, pos + n - 1), pos |-> pos + n]
        ELSE IF end = "open" THEN [kind |-> "block", body |-> <<>>, pos |-> pos]
        ELSE [kind |-> "full", body |-> Slice(data, pos, Len(data)), pos |-> Len(data) + 1]

\* io.ReadFull(reader, body) with len(body) = n >= 0
ReadFull(data, pos, n, end) ==
    LET have == Len(data) - pos + 1
    IN  IF have >= n THEN [kind |-> "full", body |-> Slice(data, pos, pos + n - 1), pos |-> pos + n]
        ELSE IF end = "open" THEN [kind |-> "block", body |-> <<>>, pos |-> pos]
        ELSE [kind |-> "err", body |-> <<>>, pos |-> Len(data) + 1]

\* bufio.NewReader(conn) (main.go 75): the reader's buffer, of the default size
BufSize == 4096

\* bufio.Reader.fill: when a read finds the buffer short, the reader (at
\* position pos) does one conn.Read into the room the buffer has left, and
\* that read takes out of the conn every byte that has arrived, as far as
\* the room goes; the result is the count of bytes then out of the conn
Fill(data, pos) ==
    IF Len(data) <= pos - 1 + BufSize THEN Len(data) ELSE pos - 1 + BufSize

\* the bytes that the reader of NewRequest has taken out of the conn when
\* NewRequest ends: its first ReadString (main.go 76) finds the buffer empty
\* and fills it with what has arrived; data is what had arrived by then
ReaderTook(data) == Fill(data, 1)

ContentLength == <<"C","o","n","t","e","n","t","-","L","e","n","g","t","h">>

\* what NewRequest hands back, or how it ends
Outcome(kind, why, method, uri, headers, body, pos) ==
    [kind |-> kind, why |-> why, Method |-> method, URI |-> uri,
     Headers |-> headers, Body |-> body, pos |-> pos]

Failure(kind, why, pos) == Outcome(kind, why, <<>>, <<>>, EmptyMap, <<>>, pos)

\* a variant that keeps the value a name had first
AddHeaderKeepFirst(headers, headerLine) ==
    LET headerSection == SplitN(headerLine, ":")
    IN  IF Len(headerSection) = 2 /\ TrimSpace(headerSection[1]) \notin DOMAIN headers
        THEN MapPut(headers, TrimSpace(headerSection[1]), TrimSpace(headerSection[2]))
        ELSE headers

\* one header line into the map (main.go 105-108)
AddHeader(headers, headerLine) ==
    LET headerSection == SplitN(headerLine, ":")
    IN  IF Len(headerSection) = 2
        THEN MapPut(headers, TrimSpace(headerSection[1]), TrimSpace(headerSection[2]))
        ELSE headers

\* a variant that returns the error when the stream ends inside the headers
RECURSIVE ReadHeadersEofIsErr(_, _, _, _)
ReadHeadersEofIsErr(data, pos, end, headers) ==
    LET r == ReadString(data, pos, end)
    IN  CASE r.kind = "block" -> [kind |-> "block", headers |-> headers, pos |-> pos]
          [] r.kind \in {"eof", "reset"} -> [kind |-> "err", headers |-> headers, pos |-> r.pos]
          [] r.kind = "line"  ->
                LET headerLine == TrimSuffix(r.line, CRLF)
                IN  IF headerLine = <<>>
                    THEN [kind |-> "done", headers |-> headers, pos |-> r.pos]
                    ELSE ReadHeadersEofIsErr(data, r.pos, end, AddHeader(headers, headerLine))

\* the header loop (main.go 90-110)
RECURSIVE ReadHeaders(_, _, _, _)
ReadHeaders(data, pos, end, headers) ==
    LET r == ReadString(data, pos, end)
    IN  CASE r.kind = "block" -> [kind |-> "block", headers |-> headers, pos |-> pos]
          [] r.kind = "eof"   -> [kind |-> "done", headers |-> headers, pos |-> r.pos]
          [] r.kind = "reset" -> [kind |-> "err", headers |-> headers, pos |-> r.pos]
          [] r.kind = "line"  ->
                LET headerLine == TrimSuffix(r.line, CRLF)
                IN  IF headerLine = <<>>
                    THEN [kind |-> "done", headers |-> headers, pos |-> r.pos]
                    ELSE ReadHeaders(data, r.pos, end, AddHeader(headers, headerLine))

\* a variant that drops the error of io.ReadFull and keeps the buffer
ReadBodyIgnoreErr(data, pos, end, method, uri, headers) ==
    IF ContentLength \in DOMAIN headers
    THEN LET a == Atoi(headers[ContentLength])
         IN  IF ~a.ok THEN Failure("err", "contentLength", pos)
             ELSE IF a.val < 0 THEN Failure("panic", "makeslice", pos)
             ELSE LET b == ReadFull(data, pos, a.val, end)
                  IN  CASE b.kind = "block" -> Failure("block", "", pos)
                        [] b.kind = "err"   ->
                              Outcome("ok", "", method, uri, headers,
                                      Slice(data, pos, Len(data)), b.pos)
                        [] b.kind = "full"  ->
                              Outcome("ok", "", method, uri, headers, b.body, b.pos)
    ELSE Outcome("ok", "", method, uri, headers, <<>>, pos)

\* the body step (main.go 113-136)
ReadBody(data, pos, end, method, uri, headers) ==
    IF ContentLength \in DOMAIN headers
    THEN LET a == Atoi(headers[ContentLength])
         IN  IF ~a.ok THEN Failure("err", "contentLength", pos)
             ELSE IF a.val < 0 THEN Failure("panic", "makeslice", pos)
             ELSE LET b == ReadFull(data, pos, a.val, end)
                  IN  CASE b.kind = "block" -> Failure("block", "", pos)
                        [] b.kind = "err"   -> Failure("err", "body", b.pos)
                        [] b.kind = "full"  ->
                              Outcome("ok", "", method, uri, headers, b.body, b.pos)
    ELSE Outcome("ok", "", method, uri, headers, <<>>, pos)

\* NewRequest (main.go 71-136) on the stream (data, end):
\*   kind "ok"    a *Req is returned,
\*        "err"   a nil *Req and an error are returned (why names the return),
\*        "panic" the goroutine panics (why names the statement),
\*        "block" a read is waiting for bytes that have not arrived.
NewRequest(data, end) ==
    LET first == ReadString(data, 1, end)
    IN  CASE first.kind = "block" -> Failure("block", "", 1)
          [] first.kind \in {"eof", "reset"} -> Failure("err", "requestLine", first.pos)
          [] first.kind = "line" ->
                LET line == TrimSuffix(first.line, CRLF)
                    sliceOfLine == Split(TrimSpace(line), SP)
                IN  IF Len(sliceOfLine) < 2
                    THEN Failure("panic", "index", first.pos)
                    ELSE LET h == ReadHeaders(data, first.pos, end, EmptyMap)
                         IN  CASE h.kind = "block" -> Failure("block", "", first.pos)
                               [] h.kind = "err" -> Failure("err", "header", h.pos)
                               [] h.kind = "done" ->
                                     ReadBody(data, h.pos, end,
                                              sliceOfLine[1], sliceOfLine[2], h.headers)

(***************************************************************************)
(* The parser harness: NewRequest applied to byte streams put together     *)
(* from a request line, header lines, the blank line and the bytes that    *)
(* follow, with each way the stream can stand after them.                  *)
(***************************************************************************)
GET == <<"G","E","T">>

POST == <<"P","O","S","T">>

HTTP11 == <<"H","T","T","P","/","1",".","1">>

Root == <<"/">>

About == <<"/","a","b","o","u","t">>

Nope == <<"/","n","o","p","e">>

RECURSIVE Join(_, _)
Join(parts, sep) ==
    IF parts = <<>> THEN <<>>
    ELSE IF Len(parts) = 1 THEN parts[1]
    ELSE parts[1] \o sep \o Join(Tail(parts), sep)

\* a request line: its tokens, single spaces between them, and its line end
Line(tokens, eol) == [tokens |-> tokens, eol |-> eol, raw |-> Join(tokens, <<SP>>) \o eol]

RequestLines ==
    { Line(<<GET, Root, HTTP11>>, CRLF),
      Line(<<POST, Root, HTTP11>>, CRLF),
      Line(<<GET, About, HTTP11>>, CRLF),
      Line(<<GET, Root>>, CRLF),
      Line(<<GET>>, CRLF),
      Line(<<>>, CRLF),
      Line(<<GET, Root, HTTP11>>, <<>>) }

\* a header line "name: value", and a line written out byte by byte; name and
\* value are what stands before and after the first colon, without the
\* surrounding blanks
Header(name, value) ==
    [raw |-> name \o <<":", SP>> \o value, colon |-> TRUE, plain |-> TRUE,
     name |-> name, value |-> value]

RawHeader(raw, colon, name, value) ==
    [raw |-> raw, colon |-> colon, plain |-> FALSE, name |-> name, value |-> value]

HostName == <<"H","o","s","t">>

LowerContentLength == <<"c","o","n","t","e","n","t","-","l","e","n","g","t","h">>

HeaderLines ==
    { Header(ContentLength, <<"2">>),
      Header(ContentLength, <<"-","1">>),
      Header(ContentLength, <<"+","2">>),
      Header(ContentLength, <<"x">>),
      Header(ContentLength, <<>>),
      Header(HostName, <<"a",":","1">>),
      Header(LowerContentLength, <<"2">>),
      RawHeader(<<"N","o","C","o","l","o","n">>, FALSE, <<>>, <<>>),
      RawHeader(<<SP,"P","a","d",SP,":",SP,SP,"v",SP,"w",SP>>, TRUE,
                <<"P","a","d">>, <<"v",SP,"w">>) }

RECURSIVE SeqsUpTo(_, _)
SeqsUpTo(S, n) ==
    IF n = 0 THEN {<<>>}
    ELSE LET shorter == SeqsUpTo(S, n - 1)
         IN  shorter \cup {Append(q, x) : q \in {r \in shorter : Len(r) = n - 1}, x \in S}

BodyText == <<"a","b","c","d","e","f","g","h">>

\* the bytes that follow the header block: every prefix of BodyText up to MaxAvail
Avails == {Slice(BodyText, 1, n) : n \in 0..MaxAvail}

ParserInputs ==
    [line : RequestLines, hdrs : SeqsUpTo(HeaderLines, MaxHeaders),
     term : BOOLEAN, avail : Avails, end : Ends]

RECURSIVE WireHeaders(_)
WireHeaders(hdrs) ==
    IF hdrs = <<>> THEN <<>> ELSE hdrs[1].raw \o CRLF \o WireHeaders(Tail(hdrs))

\* the bytes of an input on the wire
Wire(in) ==
    in.line.raw \o WireHeaders(in.hdrs) \o (IF in.term THEN CRLF ELSE <<>>) \o in.avail

NotRun == Failure("none", "", 0)

\* the harness at rest, while the server runs
NoInput == [line |-> Line(<<>>, <<>>), hdrs |-> <<>>, term |-> FALSE, avail |-> <<>>, end |-> "open"]

InitServer ==
    /\ crash = 0
    /\ pc = [c \in 1..MaxConns |-> "none"]
    /\ stream = [c \in 1..MaxConns |-> [bytes |-> <<>>, shuts |-> FALSE]]
    /\ sent = [c \in 1..MaxConns |-> 0]
    /\ closedW = [c \in 1..MaxConns |-> FALSE]
    /\ req = [c \in 1..MaxConns |-> NotRun]
    /\ events = [c \in 1..MaxConns |-> <<>>]
    /\ logs = [c \in 1..MaxConns |-> <<>>]
    /\ asset = [c \in 1..MaxConns |-> "none"]
    /\ Store = [c \in 1..MaxConns |-> EmptyMap]
    /\ ran = [c \in 1..MaxConns |-> <<>>]

InitParser ==
    /\ InitServer
    /\ input \in ParserInputs
    /\ result = NotRun

\* one call of NewRequest on the input's bytes
CallNewRequest ==
    /\ result = NotRun
    /\ result' = NewRequest(Wire(input), input.end)
    /\ UNCHANGED <<input, serverVars>>

NextParser == CallNewRequest

ParserSpec == InitParser /\ [][NextParser]_vars

(***************************************************************************)
(* What an input of the harness is, read off its parts and not off the     *)
(* parser.                                                                 *)
(***************************************************************************)
\* the request line was sent whole, with its CRLF
LineSent(in) == in.line.eol = CRLF

\* the header block was sent whole: the blank line, or the end of the stream
HeadersEnded(in) == in.term \/ in.end = "eof"

\* the values of the header lines named Content-Length
DeclaredLengths(in) ==
    {in.hdrs[i].value : i \in {j \in 1..Len(in.hdrs) :
                                 in.hdrs[j].colon /\ in.hdrs[j].name = ContentLength}}

\* a non-negative base-10 integer: one or more decimal digits
IsDecimal(v) == v # <<>> /\ \A i \in 1..Len(v) : v[i] \in Digits

\* no non-negative integer however it is read: not even with a plus sign
NoLength(v) == ~IsDecimal(v) /\ ~(v # <<>> /\ v[1] = "+" /\ IsDecimal(Tail(v)))

\* the bytes that stand after the header block
BodyBytes(in) == IF in.term THEN in.avail ELSE <<>>

HeaderNames(in) == {in.hdrs[i].name : i \in 1..Len(in.hdrs)}

\* a request line <METHOD> <URI> HTTP/1.1 CRLF, plain "Name: value" headers
\* with distinct names, the blank line, and a body of exactly the declared
\* Content-Length bytes (no body when none is declared)
WellFormed(in) ==
    /\ LineSent(in)
    /\ Len(in.line.tokens) = 3
    /\ in.line.tokens[3] = HTTP11
    /\ \A i \in 1..Len(in.hdrs) : in.hdrs[i].plain
    /\ \A i, j \in 1..Len(in.hdrs) : in.hdrs[i].name = in.hdrs[j].name => i = j
    /\ in.term
    /\ IF DeclaredLengths(in) = {}
       THEN in.avail = <<>>
       ELSE \A v \in DeclaredLengths(in) : IsDecimal(v) /\ DigitsValue(v) = Len(in.avail)

HeaderMapOf(in) ==
    [n \in HeaderNames(in) |->
        in.hdrs[CHOOSE i \in 1..Len(in.hdrs) : in.hdrs[i].name = n].value]

(***************************************************************************)
(* Claims about NewRequest, checked under ParserSpec.                      *)
(***************************************************************************)

\* C6: a request line with fewer than two space-separated tokens makes
\* NewRequest return an error (and no Request); it does not end any other way.
C6_FewTokensIsError ==
    (result # NotRun /\ LineSent(input) /\ Len(input.line.tokens) < 2)
        => result.kind = "err"

\* C7: a Content-Length header whose value is not a non-negative base-10
\* integer makes NewRequest return the invalid-Content-Length error.
C7_BadLengthIsError ==
    ( /\ result # NotRun
      /\ LineSent(input) /\ Len(input.line.tokens) >= 2 /\ HeadersEnded(input)
      /\ DeclaredLengths(input) # {}
      /\ \A v \in DeclaredLengths(input) : NoLength(v) )
        => (result.kind = "err" /\ result.why = "contentLength")

\* C8: a Request that NewRequest returns has a body as long as the value of
\* its Content-Length header when the map has that key, and an empty body
\* when it has not.
C8_BodyLengthMatchesHeader ==
    result.kind = "ok" =>
        IF ContentLength \in DOMAIN result.Headers
        THEN LET v == result.Headers[ContentLength]
                 digits == IF v # <<>> /\ v[1] = "+" THEN Tail(v) ELSE v
             IN  IsDecimal(digits) /\ Len(result.Body) = DigitsValue(digits)
        ELSE result.Body = <<>>

C8_Witness ==
    /\ result.kind = "ok"
    /\ ContentLength \in DOMAIN result.Headers
    /\ Len(result.Body) = 2
    /\ Len(input.avail) > 2

\* C9: when the declared Content-Length exceeds the body bytes that arrive
\* before the stream ends, NewRequest returns the body error and no Request.
C9_TruncatedBodyIsError ==
    ( /\ result # NotRun
      /\ LineSent(input) /\ Len(input.line.tokens) >= 2 /\ HeadersEnded(input)
      /\ input.end # "open"
      /\ \E v \in DeclaredLengths(input) :
            /\ DeclaredLengths(input) = {v}
            /\ IsDecimal(v)
            /\ DigitsValue(v) > Len(BodyBytes(input)) )
        => (result.kind = "err" /\ result.why = "body")

C9_Witness ==
    /\ result.kind = "err" /\ result.why = "body"
    /\ input.term /\ Len(input.avail) = 1
    /\ DeclaredLengths(input) = {<<"2">>}

\* C10: for a well-formed request NewRequest returns a Request with exactly
\* the method, the URI, every header and the body bytes that were sent.
C10_WellFormedRoundTrip ==
    (result # NotRun /\ WellFormed(input)) =>
        /\ result.kind = "ok"
        /\ result.Method = input.line.tokens[1]
        /\ result.URI = input.line.tokens[2]
        /\ result.Headers = HeaderMapOf(input)
        /\ result.Body = input.avail

C10_Witness ==
    /\ result.kind = "ok"
    /\ WellFormed(input)
    /\ Len(input.hdrs) = 2
    /\ input.avail = <<"a", "b">>
    /\ input.end = "open"

\* C11: parsing one request takes out of the connection's byte stream
\* exactly the bytes of that request (request line, header lines, blank line
\* and the Content-Length body bytes) and none of the bytes that lie beyond
\* the end of the body.
C11_ConsumesExactlyOneRequest ==
    (result.kind = "ok" /\ LineSent(input) /\ input.term) =>
        ReaderTook(Wire(input)) =
            Len(input.line.raw) + Len(WireHeaders(input.hdrs)) + Len(CRLF) + Len(result.Body)

\* the header lines of an input that hold a colon
ColonLines(in) == {i \in 1..Len(in.hdrs) : in.hdrs[i].colon}

\* the last of the header lines that carry the name n
LastOf(in, n) ==
    CHOOSE i \in ColonLines(in) :
        /\ in.hdrs[i].name = n
        /\ \A j \in ColonLines(in) : in.hdrs[j].name = n => j <= i

\* the header map the lines of an input stand for: what is before and after
\* the first colon of each line, without the surrounding blanks, the last
\* line of a name giving its value
ExpectedHeaders(in) ==
    [n \in {in.hdrs[i].name : i \in ColonLines(in)} |-> in.hdrs[LastOf(in, n)].value]

\* C19: each header line is split at its first colon only, name and value
\* are trimmed of surrounding whitespace, a line without a colon is skipped
\* without error, and of several lines with the same name (case-sensitive)
\* the last gives the value in the header map.
C19_HeaderLinesParsed ==
    /\ (result.kind = "ok" /\ LineSent(input))
            => result.Headers = ExpectedHeaders(input)
    /\ ( /\ result # NotRun
         /\ LineSent(input) /\ Len(input.line.tokens) >= 2 /\ HeadersEnded(input)
         /\ ContentLength \notin DOMAIN ExpectedHeaders(input) )
            => result.kind = "ok"

C19_Witness ==
    /\ result.kind = "ok"
    /\ LineSent(input)
    /\ Len(input.hdrs) = 2
    /\ input.hdrs[1].colon /\ input.hdrs[2].colon
    /\ input.hdrs[1].name = input.hdrs[2].name
    /\ input.hdrs[1].value # input.hdrs[2].value
    /\ result.Headers[input.hdrs[2].name] = input.hdrs[2].value

\* C20: when the stream ends while the headers are read (after a complete
\* request line and before any empty line), NewRequest returns no error for
\* it: it stops reading headers, keeps the headers of the complete lines
\* read so far and goes on to the body step.
C20_EofEndsHeaders ==
    ( /\ result # NotRun
      /\ LineSent(input) /\ Len(input.line.tokens) >= 2
      /\ ~input.term /\ input.end = "eof" )
        => /\ result.kind # "block"
           /\ ~(result.kind = "err" /\ result.why \in {"requestLine", "header"})
           /\ ContentLength \notin DOMAIN ExpectedHeaders(input)
                => /\ result.kind = "ok"
                   /\ result.Headers = ExpectedHeaders(input)
                   /\ result.Body = <<>>
           /\ ContentLength \in DOMAIN ExpectedHeaders(input)
                => result.why \in {"contentLength", "makeslice", "body"}

C20_Witness ==
    /\ result.kind = "ok"
    /\ LineSent(input)
    /\ ~input.term /\ input.end = "eof"
    /\ Len(input.hdrs) = 2
    /\ Cardinality(DOMAIN result.Headers) = 2
    /\ input.avail # <<>>

(***************************************************************************)
(* encoding/json: json.Unmarshal(body, &Data{}) with                       *)
(* type Data struct { Input string `json:"input"` } (main.go 234-243).     *)
(* The decoder scans one JSON value (strings without backslash escapes),   *)
(* refuses anything but blanks after it, and then stores into the struct.  *)
(***************************************************************************)
JsonSpace == {" ", "\t", "\n", "\r"}

Quote == "\""

SkipSpace(s, i) ==
    IF \E j \in i..Len(s) : s[j] \notin JsonSpace
    THEN CHOOSE j \in i..Len(s) : s[j] \notin JsonSpace /\ \A k \in i..(j - 1) : s[k] \in JsonSpace
    ELSE Len(s) + 1

\* the index after the run of digits that starts at i
SkipDigits(s, i) ==
    IF \E j \in i..Len(s) : s[j] \notin Digits
    THEN CHOOSE j \in i..Len(s) : s[j] \notin Digits /\ \A k \in i..(j - 1) : s[k] \in Digits
    ELSE Len(s) + 1

JsonFail == [ok |-> FALSE, pos |-> 0, kind |-> "", str |-> <<>>, members |-> <<>>]

JsonVal(pos, kind, str, members) ==
    [ok |-> TRUE, pos |-> pos, kind |-> kind, str |-> str, members |-> members]

\* a string literal whose opening quote is at i and whose closing one is at j
StringTo(s, i, j) ==
    IF j = 0 THEN JsonFail
    ELSE IF \E k \in (i + 1)..(j - 1) : s[k] \in {"\\", "\n", "\r", "\t", "\f"}
    THEN JsonFail
    ELSE JsonVal(j + 1, "string", Slice(s, i + 1, j - 1), <<>>)

JsonString(s, i) == StringTo(s, i, IndexFrom(s, i + 1, Quote))

\* a number literal that starts at i: the exponent's digits from x to g
NumberEnd(s, i, x, g) ==
    IF g > x THEN JsonVal(g, "number", Slice(s, i, g - 1), <<>>) ELSE JsonFail

\* the fraction has ended at f and the exponent's digits start at x
NumberExp(s, i, f, x) ==
    IF x = f THEN JsonVal(f, "number", Slice(s, i, f - 1), <<>>)
    ELSE NumberEnd(s, i, x, SkipDigits(s, x))

\* the integer part has ended at e and the fraction at f
NumberFrac(s, i, e, f) ==
    IF f # e /\ f <= e + 1 THEN JsonFail
    ELSE NumberExp(s, i, f,
                   IF f <= Len(s) /\ s[f] \in {"e", "E"}
                   THEN IF f + 1 <= Len(s) /\ s[f + 1] \in {"+", "-"} THEN f + 2 ELSE f + 1
                   ELSE f)

\* the integer part runs from d to e: no digit, or a leading zero, is an error
NumberInt(s, i, d, e) ==
    IF e = d \/ (s[d] = "0" /\ e # d + 1) THEN JsonFail
    ELSE NumberFrac(s, i, e, IF e <= Len(s) /\ s[e] = "." THEN SkipDigits(s, e + 1) ELSE e)

NumberFrom(s, i, d) == NumberInt(s, i, d, SkipDigits(s, d))

JsonNumber(s, i) == NumberFrom(s, i, IF s[i] = "-" THEN i + 1 ELSE i)

RECURSIVE JsonValue(_, _), JsonMembers(_, _, _), JsonElements(_, _)

\* after a member's value: a comma and the next member, or the closing brace
MemberSep(s, n, all) ==
    IF n > Len(s) THEN JsonFail
    ELSE IF s[n] = "," THEN JsonMembers(s, n + 1, all)
    ELSE IF s[n] = "}" THEN JsonVal(n + 1, "object", <<>>, all)
    ELSE JsonFail

MemberNext(s, key, v, acc) ==
    IF ~v.ok THEN JsonFail
    ELSE MemberSep(s, SkipSpace(s, v.pos),
                   Append(acc, [key |-> key.str, kind |-> v.kind, str |-> v.str]))

MemberValue(s, key, c, acc) ==
    IF c > Len(s) \/ s[c] # ":" THEN JsonFail
    ELSE MemberNext(s, key, JsonValue(s, c + 1), acc)

MemberColon(s, key, acc) ==
    IF ~key.ok THEN JsonFail ELSE MemberValue(s, key, SkipSpace(s, key.pos), acc)

MemberKey(s, k, acc) ==
    IF k > Len(s) \/ s[k] # Quote THEN JsonFail
    ELSE MemberColon(s, JsonString(s, k), acc)

\* the members of an object after its brace or a comma
JsonMembers(s, i, acc) == MemberKey(s, SkipSpace(s, i), acc)

\* after an element: a comma and the next element, or the closing bracket
ElementSep(s, n) ==
    IF n > Len(s) THEN JsonFail
    ELSE IF s[n] = "," THEN JsonElements(s, n + 1)
    ELSE IF s[n] = "]" THEN JsonVal(n + 1, "array", <<>>, <<>>)
    ELSE JsonFail

ElementNext(s, v) ==
    IF ~v.ok THEN JsonFail ELSE ElementSep(s, SkipSpace(s, v.pos))

\* the elements of an array after its bracket or a comma
JsonElements(s, i) == ElementNext(s, JsonValue(s, i))

\* an object whose brace is at k, m the first byte after it that is no blank
ObjectAt(s, k, m) ==
    IF m <= Len(s) /\ s[m] = "}" THEN JsonVal(m + 1, "object", <<>>, <<>>)
    ELSE JsonMembers(s, k + 1, <<>>)

ArrayAt(s, k, m) ==
    IF m <= Len(s) /\ s[m] = "]" THEN JsonVal(m + 1, "array", <<>>, <<>>)
    ELSE JsonElements(s, k + 1)

\* the value that starts at k
ValueAt(s, k) ==
    IF k > Len(s) THEN JsonFail
    ELSE IF s[k] = Quote THEN JsonString(s, k)
    ELSE IF s[k] = "-" \/ s[k] \in Digits THEN JsonNumber(s, k)
    ELSE IF HasPrefix(Slice(s, k, Len(s)), <<"t","r","u","e">>)
         THEN JsonVal(k + 4, "bool", <<>>, <<>>)
    ELSE IF HasPrefix(Slice(s, k, Len(s)), <<"f","a","l","s","e">>)
         THEN JsonVal(k + 5, "bool", <<>>, <<>>)
    ELSE IF HasPrefix(Slice(s, k, Len(s)), <<"n","u","l","l">>)
         THEN JsonVal(k + 4, "null", <<>>, <<>>)
    ELSE IF s[k] = "{" THEN ObjectAt(s, k, SkipSpace(s, k + 1))
    ELSE IF s[k] = "[" THEN ArrayAt(s, k, SkipSpace(s, k + 1))
    ELSE JsonFail

\* one JSON value, blanks before it skipped
JsonValue(s, i) == ValueAt(s, SkipSpace(s, i))

\* nothing but blanks may follow the value
DocumentEnd(s, v) ==
    IF v.ok /\ SkipSpace(s, v.pos) > Len(s) THEN v ELSE JsonFail

\* the whole text is one JSON value
JsonDocument(s) == DocumentEnd(s, JsonValue(s, 1))

LowerChar(ch) ==
    CASE ch = "I" -> "i" [] ch = "N" -> "n" [] ch = "P" -> "p" [] ch = "U" -> "u"
      [] ch = "T" -> "t" [] OTHER -> ch

InputKey == <<"i","n","p","u","t">>

\* the struct field a key names: exactly "input", or "input" in another case
NamesInput(key) == [i \in 1..Len(key) |-> LowerChar(key[i])] = InputKey

\* the members stored into Data in their order: a string sets Input, null
\* leaves it, any other kind leaves it and makes Unmarshal return an error
StoreMember(m, acc) ==
    IF ~NamesInput(m.key) THEN acc
    ELSE IF m.kind = "string" THEN [acc EXCEPT !.Input = m.str]
    ELSE IF m.kind = "null" THEN acc
    ELSE [acc EXCEPT !.ok = FALSE]

RECURSIVE StoreMembers(_, _)
StoreMembers(members, acc) ==
    IF members = <<>> THEN acc
    ELSE StoreMembers(Tail(members), StoreMember(members[1], acc))

\* the decoded document into the struct
Decode(v) ==
    IF ~v.ok THEN [ok |-> FALSE, Input |-> <<>>]
    ELSE IF v.kind = "null" THEN [ok |-> TRUE, Input |-> <<>>]
    ELSE IF v.kind # "object" THEN [ok |-> FALSE, Input |-> <<>>]
    ELSE StoreMembers(v.members, [ok |-> TRUE, Input |-> <<>>])

\* json.Unmarshal([]byte(body), inputJson): ok is err == nil
Unmarshal(body) == Decode(JsonDocument(body))

(***************************************************************************)
(* The response serialiser (main.go 149-155).                              *)
(***************************************************************************)
StatusOK == 200

\* net/http.StatusText for the codes an HTTP/1.1 server of this kind sends
StatusText(status) ==
    CASE status = 200 -> <<"O","K">>
      [] status = 400 -> <<"B","a","d",SP,"R","e","q","u","e","s","t">>
      [] status = 404 -> <<"N","o","t",SP,"F","o","u","n","d">>
      [] status = 405 -> <<"M","e","t","h","o","d",SP,"N","o","t",SP,"A","l","l","o","w","e","d">>
      [] status = 500 -> <<"I","n","t","e","r","n","a","l",SP,"S","e","r","v","e","r",SP,"E","r","r","o","r">>
      [] OTHER -> <<>>

\* a variant that ends the body with a line end of its own
NewResponseTrailer(status, data, contentType) ==
    <<"H","T","T","P","/","1",".","1",SP>> \o Itoa(status) \o <<SP>> \o StatusText(status) \o CRLF
        \o <<"C","o","n","t","e","n","t","-","T","y","p","e",":",SP>> \o contentType \o CRLF
        \o <<"C","o","n","t","e","n","t","-","L","e","n","g","t","h",":",SP>> \o Itoa(Len(data)) \o CRLF
        \o CRLF \o data \o CRLF

\* a variant that puts the length before the type
NewResponseLengthFirst(status, data, contentType) ==
    <<"H","T","T","P","/","1",".","1",SP>> \o Itoa(status) \o <<SP>> \o StatusText(status) \o CRLF
        \o <<"C","o","n","t","e","n","t","-","L","e","n","g","t","h",":",SP>> \o Itoa(Len(data)) \o CRLF
        \o <<"C","o","n","t","e","n","t","-","T","y","p","e",":",SP>> \o contentType \o CRLF
        \o CRLF \o data

NewResponse(status, data, contentType) ==
    LET responseStatus ==
            <<"H","T","T","P","/","1",".","1",SP>> \o Itoa(status) \o <<SP>> \o StatusText(status) \o CRLF
        responseContentType ==
            <<"C","o","n","t","e","n","t","-","T","y","p","e",":",SP>> \o contentType \o CRLF
        responseContentLength ==
            <<"C","o","n","t","e","n","t","-","L","e","n","g","t","h",":",SP>> \o Itoa(Len(data)) \o CRLF
    IN  responseStatus \o responseContentType \o responseContentLength \o CRLF \o data

TextHtml == <<"t","e","x","t","/","h","t","m","l">>

ApplicationJson == <<"a","p","p","l","i","c","a","t","i","o","n","/","j","s","o","n">>

Success == <<"s","u","c","c","e","s","s">>

(***************************************************************************)
(* The serialiser harness: NewResponse applied to status codes (one of     *)
(* them without a standard reason phrase), bodies (empty, of one and of    *)
(* two digits of length, with line ends and a blank line inside) and       *)
(* content types.                                                          *)
(***************************************************************************)
Statuses == {200, 400, 404, 405, 500, 599}

TextPlain == <<"t","e","x","t","/","p","l","a","i","n",";",SP,"c","h","a","r","s","e","t","=","u","t","f","-","8">>

ContentTypes == {TextHtml, ApplicationJson, TextPlain}

Bodies ==
    { <<>>,
      <<"a">>,
      Success,
      <<"a","b","c","d","e","f","g","h","i">>,
      <<"a","b","c","d","e","f","g","h","i","j">>,
      <<"a",CR,LF,"b">>,
      <<"x",CR,LF,CR,LF,"y">>,
      <<CR,LF,CR,LF,"C","o","n","t","e","n","t","-","L","e","n","g","t","h",":",SP,"0",CR,LF,CR,LF>>,
      <<"{",Quote,"i","n","p","u","t",Quote,":",Quote,"h","e","l","l","o",Quote,"}">>,
      <<"<","p",">","a","b","o","u","t","<","/","p",">">> }

ResponseInputs == [status : Statuses, data : Bodies, contentType : ContentTypes]

InitSerial ==
    /\ InitServer
    /\ input \in ResponseInputs
    /\ result = NotRun

\* one call of NewResponse on the input's arguments
CallNewResponse ==
    /\ result = NotRun
    /\ result' = [kind |-> "response",
                  bytes |-> NewResponse(input.status, input.data, input.contentType)]
    /\ UNCHANGED <<input, serverVars>>

NextSerial == CallNewResponse

SerialSpec == InitSerial /\ [][NextSerial]_vars

(***************************************************************************)
(* A response as its reader takes it apart: the head up to the first blank *)
(* line, the lines of the head, and the body after the blank line.         *)
(***************************************************************************)
\* where the first CRLF of s starts, 0 when s holds none
IndexCRLF(s) ==
    IF \E i \in 1..(Len(s) - 1) : s[i] = CR /\ s[i + 1] = LF
    THEN CHOOSE i \in 1..(Len(s) - 1) :
            /\ s[i] = CR /\ s[i + 1] = LF
            /\ \A j \in 1..(i - 1) : ~(s[j] = CR /\ s[j + 1] = LF)
    ELSE 0

\* where the first blank line (CRLF CRLF) of s starts, 0 when s holds none
BlankLine(s) ==
    IF \E i \in 1..(Len(s) - 3) : Slice(s, i, i + 3) = CRLF \o CRLF
    THEN CHOOSE i \in 1..(Len(s) - 3) :
            /\ Slice(s, i, i + 3) = CRLF \o CRLF
            /\ \A j \in 1..(i - 1) : Slice(s, j, j + 3) # CRLF \o CRLF
    ELSE 0

\* the head with the line end of its last line
HeadOf(s) == Slice(s, 1, BlankLine(s) + 1)

BodyOf(s) == Slice(s, BlankLine(s) + 4, Len(s))

\* the lines of a text in which every line ends with CRLF
RECURSIVE LinesOf(_)
LinesOf(s) ==
    IF s = <<>> THEN <<>>
    ELSE IF IndexCRLF(s) = 0 THEN <<s>>
    ELSE <<Slice(s, 1, IndexCRLF(s) - 1)>> \o LinesOf(Slice(s, IndexCRLF(s) + 2, Len(s)))

LengthField == <<"C","o","n","t","e","n","t","-","L","e","n","g","t","h",":",SP>>

TypeField == <<"C","o","n","t","e","n","t","-","T","y","p","e",":",SP>>

\* the values of the Content-Length lines in the head of a response
EmittedLengths(s) ==
    {Slice(l, Len(LengthField) + 1, Len(l)) :
        l \in {LinesOf(HeadOf(s))[i] :
                 i \in {j \in 1..Len(LinesOf(HeadOf(s))) :
                          HasPrefix(LinesOf(HeadOf(s))[j], LengthField)}}}

\* the status line of each code, written out
StatusLineOf(status) ==
    CASE status = 200 -> <<"H","T","T","P","/","1",".","1",SP,"2","0","0",SP,"O","K">>
      [] status = 400 -> <<"H","T","T","P","/","1",".","1",SP,"4","0","0",SP,"B","a","d",SP,"R","e","q","u","e","s","t">>
      [] status = 404 -> <<"H","T","T","P","/","1",".","1",SP,"4","0","4",SP,"N","o","t",SP,"F","o","u","n","d">>
      [] status = 405 -> <<"H","T","T","P","/","1",".","1",SP,"4","0","5",SP,"M","e","t","h","o","d",SP,"N","o","t",SP,"A","l","l","o","w","e","d">>
      [] status = 500 -> <<"H","T","T","P","/","1",".","1",SP,"5","0","0",SP,"I","n","t","e","r","n","a","l",SP,"S","e","r","v","e","r",SP,"E","r","r","o","r">>
      [] status = 599 -> <<"H","T","T","P","/","1",".","1",SP,"5","9","9",SP>>

SuccessResponse ==
    <<"H","T","T","P","/","1",".","1",SP,"2","0","0",SP,"O","K",CR,LF,"C","o","n","t","e","n","t","-","T","y","p","e",":",SP,"a","p","p","l","i","c","a","t","i","o","n","/","j","s","o","n",CR,LF,"C","o","n","t","e","n","t","-","L","e","n","g","t","h",":",SP,"7",CR,LF,CR,LF,"s","u","c","c","e","s","s">>

(***************************************************************************)
(* Claims about NewResponse, checked under SerialSpec.                     *)
(***************************************************************************)

\* C12: for every status, body and content type, the Content-Length value
\* that NewResponse emits is the exact byte length of the body that follows
\* the blank line.
C12_LengthIsBodyLength ==
    result.kind = "response" =>
        /\ BlankLine(result.bytes) # 0
        /\ EmittedLengths(result.bytes) # {}
        /\ \A v \in EmittedLengths(result.bytes) :
              /\ IsDecimal(v)
              /\ DigitsValue(v) = Len(BodyOf(result.bytes))
              /\ DigitsValue(v) = Len(input.data)

C12_Witness ==
    /\ result.kind = "response"
    /\ Len(input.data) >= 10
    /\ BlankLine(input.data) # 0
    /\ EmittedLengths(result.bytes) = {Itoa(Len(input.data))}

\* C13: NewResponse returns the status line HTTP/1.1 <status> <reason-phrase>
\* CRLF, the Content-Type header CRLF, the Content-Length header CRLF (these
\* two headers and no other, in this order), an empty line, and the body
\* verbatim with nothing after it; (200, "success", "application/json") gives
\* HTTP/1.1 200 OK\r\nContent-Type: application/json\r\nContent-Length: 7\r\n\r\nsuccess.
C13_ResponseIsByteExact ==
    result.kind = "response" =>
        /\ Len(LinesOf(HeadOf(result.bytes))) = 3
        /\ LinesOf(HeadOf(result.bytes))[1] = StatusLineOf(input.status)
        /\ LinesOf(HeadOf(result.bytes))[2] = TypeField \o input.contentType
        /\ HasPrefix(LinesOf(HeadOf(result.bytes))[3], LengthField)
        /\ IsDecimal(Slice(LinesOf(HeadOf(result.bytes))[3], Len(LengthField) + 1,
                           Len(LinesOf(HeadOf(result.bytes))[3])))
        /\ BodyOf(result.bytes) = input.data
        /\ (input = [status |-> 200, data |-> Success, contentType |-> ApplicationJson])
              => result.bytes = SuccessResponse

C13_Witness ==
    /\ result.kind = "response"
    /\ input = [status |-> 200, data |-> Success, contentType |-> ApplicationJson]
    /\ result.bytes = SuccessResponse

(***************************************************************************)
(* The static assets as os.ReadFile and text/template meet them.  The      *)
(* index page is read as a template: "plain" holds no action, "data" is    *)
(* the action {{.data}}, "broken" does not parse (an unclosed action) and  *)
(* "failing" parses but fails in Execute; "missing" makes ReadFile fail,   *)
(* which leaves the buffer empty.                                          *)
(***************************************************************************)
IndexFiles == {"missing", "plain", "data", "broken", "failing"}

AboutFiles == {"missing", "present"}

PlainPage == <<"<","p",">","i","n","d","e","x","<","/","p",">">>

AboutPage == <<"<","p",">","a","b","o","u","t","<","/","p",">">>

DataKey == <<"d","a","t","a">>

\* how text/template prints a map[string]string that holds at most the key data
PrintMap(store) ==
    IF DataKey \in DOMAIN store
    THEN <<"m","a","p","[","d","a","t","a",":">> \o store[DataKey] \o <<"]">>
    ELSE <<"m","a","p","[","]">>

\* what is in a handler's hands: the calls it made on the conn, its log
\* lines, the Store of its Service and the asset it met; ran lists the
\* handlers that were called
Handling ==
    [events |-> <<>>, logs |-> <<>>, Store |-> EmptyMap, asset |-> "none", ran |-> <<>>]

WriteEv(bytes) == [op |-> "Write", bytes |-> bytes]

CloseEv == [op |-> "Close", bytes |-> <<>>]

\* Service.handleIndexPage (main.go 192-221)
handleIndexPage(h, file) ==
    LET read == [h EXCEPT !.ran = Append(@, "handleIndexPage"),
                          !.asset = file,
                          !.logs = IF file = "missing" THEN Append(@, "readfile error") ELSE @]
    IN  IF file = "broken"
        THEN [read EXCEPT !.logs = Append(@, "template parse error")]
        ELSE LET shown == [read EXCEPT !.logs = Append(@, "store")]
             IN  IF file = "failing"
                 THEN [shown EXCEPT !.logs = Append(@, "template execute error")]
                 ELSE LET page == CASE file = "missing" -> <<>>
                                    [] file = "plain" -> PlainPage
                                    [] file = "data" -> PrintMap(h.Store)
                          resp == NewResponse(StatusOK, page, TextHtml)
                      IN  [shown EXCEPT !.events = @ \o <<WriteEv(resp), CloseEv>>]

\* a variant that closes the conn a second time
handleAboutPageClosesTwice(h, file) ==
    [h EXCEPT !.ran = Append(@, "handleAboutPage"),
              !.asset = file,
              !.logs = IF file = "missing" THEN Append(@, "readfile error") ELSE @,
              !.events = @ \o <<WriteEv(NewResponse(StatusOK,
                                                     IF file = "missing" THEN <<>> ELSE AboutPage,
                                                     TextHtml)),
                                CloseEv, CloseEv>>]

\* Service.handleAboutPage (main.go 223-232)
handleAboutPage(h, file) ==
    LET buffer == IF file = "missing" THEN <<>> ELSE AboutPage
        resp == NewResponse(StatusOK, buffer, TextHtml)
    IN  [h EXCEPT !.ran = Append(@, "handleAboutPage"),
                  !.asset = file,
                  !.logs = IF file = "missing" THEN Append(@, "readfile error") ELSE @,
                  !.events = @ \o <<WriteEv(resp), CloseEv>>]

\* Service.handleInputData (main.go 238-255)
handleInputData(h, body) ==
    LET inputJson == Unmarshal(body)
        seen == [h EXCEPT !.ran = Append(@, "handleInputData"),
                          !.logs = Append(@, "body")]
    IN  IF ~inputJson.ok
        THEN [seen EXCEPT !.logs = Append(@, "unmarshal error")]
        ELSE [seen EXCEPT !.logs = Append(@, "input"),
                          !.Store = MapPut(@, DataKey, inputJson.Input),
                          !.events = @ \o <<WriteEv(NewResponse(StatusOK, Success, ApplicationJson)),
                                            CloseEv>>]

\* a variant that tests the method alone: every GET runs both page handlers
MuxNoUriTest(r, indexFile, aboutFile) ==
    IF r.Method = GET
    THEN handleAboutPage(handleIndexPage(Handling, indexFile), aboutFile)
    ELSE IF r.Method = POST THEN handleInputData(Handling, r.Body)
    ELSE Handling

\* Router.Mux (main.go 164-181) on the Service that NewService builds
\* (main.go 183-190): three tests in a row, each calling its handler
Mux(r, indexFile, aboutFile) ==
    LET s == Handling
        a == IF r.Method = GET /\ r.URI = Root THEN handleIndexPage(s, indexFile) ELSE s
        b == IF r.Method = GET /\ r.URI = About THEN handleAboutPage(a, aboutFile) ELSE a
    IN  IF r.Method = POST /\ r.URI = Root THEN handleInputData(b, r.Body) ELSE b

(***************************************************************************)
(* The clients.  A client connects and sends the first two bytes of its    *)
(* request, later the rest, and may then shut its sending side; it may     *)
(* stop for good after any of these steps.                                 *)
(***************************************************************************)
Conns == 1..MaxConns

MainPanic == 0 - 1

GoodJson == <<"{","\"","i","n","p","u","t","\"",":","\"","h","e","l","l","o","\"","}">>

BadJson == <<"{","b","a","d","}">>

Request(tokens, headers, body) ==
    Join(tokens, <<SP>>) \o CRLF \o WireHeaders(headers) \o CRLF \o body

\* what a client sends, and whether it shuts its sending side after the last
\* byte (a client that has sent a whole request waits for the response)
Client(bytes, shuts) == [bytes |-> bytes, shuts |-> shuts]

ClientStreams ==
    { Client(Request(<<GET, Root, HTTP11>>, <<>>, <<>>), FALSE),
      Client(Request(<<GET, About, HTTP11>>, <<>>, <<>>), FALSE),
      Client(Request(<<POST, Root, HTTP11>>,
                     <<Header(ContentLength, Itoa(Len(GoodJson)))>>, GoodJson), FALSE),
      Client(Request(<<POST, Root, HTTP11>>,
                     <<Header(ContentLength, Itoa(Len(BadJson)))>>, BadJson), FALSE),
      Client(Request(<<GET, Nope, HTTP11>>, <<>>, <<>>), FALSE),
      Client(Request(<<GET>>, <<>>, <<>>), FALSE),
      Client(Request(<<GET, Root, HTTP11>>, <<Header(ContentLength, <<"x">>)>>, <<>>), FALSE),
      Client(Join(<<GET, About>>, <<SP>>), TRUE) }

\* the bytes of a client's request that have reached the server once k of
\* its segments have: the first two bytes, then the rest
Segments(s, k) ==
    CASE k = 0 -> <<>>
      [] k = 1 -> Slice(s.bytes, 1, 2)
      [] k = 2 -> s.bytes

EndOf(shut) == IF shut THEN "eof" ELSE "open"

\* NewRequest on every stream a connection can hold, worked out once
ParseTable ==
    { [stream |-> s, sent |-> k, shut |-> e, out |-> NewRequest(Segments(s, k), EndOf(e))] :
        s \in ClientStreams, k \in 0..2, e \in BOOLEAN }

\* what NewRequest(conn) does on connection c as its stream stands
NewRequestOn(c) ==
    (CHOOSE t \in ParseTable :
        t.stream = stream[c] /\ t.sent = sent[c] /\ t.shut = closedW[c]).out

Running == crash = 0

\* a client connects and its first segment arrives; connections enter the
\* listener's queue in their order
Connect(c) ==
    /\ Running
    /\ pc[c] = "none"
    /\ \A d \in Conns : d < c => pc[d] # "none"
    /\ \E s \in ClientStreams : stream' = [stream EXCEPT ![c] = s]
    /\ sent' = [sent EXCEPT ![c] = 1]
    /\ pc' = [pc EXCEPT ![c] = "pending"]
    /\ UNCHANGED <<crash, closedW, req, events, logs, asset, Store, ran, input, result>>

\* the rest of c's request arrives (bytes that arrive once
\* NewRequest has returned are never read)
Send(c) ==
    /\ Running
    /\ pc[c] \in {"pending", "parsing"}
    /\ sent[c] < 2
    /\ sent' = [sent EXCEPT ![c] = @ + 1]
    /\ UNCHANGED <<crash, pc, stream, closedW, req, events, logs, asset, Store, ran, input, result>>

\* the client of c shuts its sending side after its last byte
ShutWrite(c) ==
    /\ Running
    /\ pc[c] \in {"pending", "parsing"}
    /\ stream[c].shuts
    /\ ~closedW[c]
    /\ sent[c] = 2
    /\ closedW' = [closedW EXCEPT ![c] = TRUE]
    /\ UNCHANGED <<crash, pc, stream, sent, req, events, logs, asset, Store, ran, input, result>>

(***************************************************************************)
(* The server.                                                             *)
(***************************************************************************)
\* a variant of the loop that calls handleAccept itself, without go: main is
\* inside the handler of a connection until that handler returns
MainInHandler == \E d \in Conns : pc[d] \in {"parsing", "dispatching"}

\* main.go 55: go handleAccept(conn) starts a goroutine and returns, so main
\* is never inside a handler and is back at Accept at once
MainWaitsForHandler == FALSE

\* main.go 46-57, Accept returns a connection: the loop takes the oldest
\* queued connection and starts its goroutine
Accept(c) ==
    /\ Running
    /\ ~MainWaitsForHandler
    /\ pc[c] = "pending"
    /\ \A d \in Conns : d < c => pc[d] # "pending"
    /\ pc' = [pc EXCEPT ![c] = "parsing"]
    /\ UNCHANGED <<crash, stream, sent, closedW, req, events, logs, asset, Store, ran, input, result>>

\* a panic ends the process, and with it every goroutine and connection
Panic(by) ==
    /\ crash' = by
    /\ pc' = [c \in Conns |-> "gone"]
    /\ stream' = [c \in Conns |-> [bytes |-> <<>>, shuts |-> FALSE]]
    /\ sent' = [c \in Conns |-> 0]
    /\ closedW' = [c \in Conns |-> FALSE]
    /\ req' = [c \in Conns |-> NotRun]
    /\ events' = [c \in Conns |-> <<>>]
    /\ logs' = [c \in Conns |-> <<>>]
    /\ asset' = [c \in Conns |-> "none"]
    /\ Store' = [c \in Conns |-> EmptyMap]
    /\ ran' = [c \in Conns |-> <<>>]

\* main.go 47-48, Accept returns an error: conn is nil and conn.RemoteAddr()
\* panics in main before the error is looked at
AcceptError ==
    /\ Running
    /\ ~MainWaitsForHandler
    /\ Panic(MainPanic)
    /\ UNCHANGED <<input, result>>

\* handleAccept (main.go 60-65), NewRequest panics: the goroutine of c ends
\* the process
ParsePanic(c) ==
    /\ Running
    /\ pc[c] = "parsing"
    /\ NewRequestOn(c).kind = "panic"
    /\ Panic(c)
    /\ UNCHANGED <<input, result>>

\* a variant that answers a parse error with a 400 response and closes
ParseAnswersErr(c) ==
    /\ Running
    /\ pc[c] = "parsing"
    /\ NewRequestOn(c).kind \in {"ok", "err"}
    /\ req' = [req EXCEPT ![c] = NewRequestOn(c)]
    /\ pc' = [pc EXCEPT ![c] = IF NewRequestOn(c).kind = "ok" THEN "dispatching" ELSE "done"]
    /\ logs' = [logs EXCEPT ![c] = IF NewRequestOn(c).kind = "err"
                                   THEN Append(@, "parse error") ELSE @]
    /\ events' = [events EXCEPT ![c] =
                     IF NewRequestOn(c).kind = "err"
                     THEN <<WriteEv(NewResponse(400, <<>>, TextHtml)), CloseEv>> ELSE @]
    /\ UNCHANGED <<crash, stream, sent, closedW, asset, Store, ran, input, result>>

\* handleAccept up to the return of NewRequest (main.go 60-65): the call
\* returns once the bytes that have arrived decide it
Parse(c) ==
    /\ Running
    /\ pc[c] = "parsing"
    /\ NewRequestOn(c).kind \in {"ok", "err"}
    /\ req' = [req EXCEPT ![c] = NewRequestOn(c)]
    /\ pc' = [pc EXCEPT ![c] = IF NewRequestOn(c).kind = "ok" THEN "dispatching" ELSE "done"]
    /\ logs' = [logs EXCEPT ![c] = IF NewRequestOn(c).kind = "err"
                                   THEN Append(@, "parse error") ELSE @]
    /\ UNCHANGED <<crash, stream, sent, closedW, events, asset, Store, ran, input, result>>

\* Mux on every Request that NewRequest can return here and every state of
\* the assets, worked out once
MuxTable ==
    { [req |-> r, index |-> i, about |-> a, out |-> Mux(r, i, a)] :
        r \in {t.out : t \in {u \in ParseTable : u.out.kind = "ok"}},
        i \in IndexFiles, a \in AboutFiles }

\* what router.Mux() does for the Request of c with the assets as given
MuxOn(c, indexFile, aboutFile) ==
    (CHOOSE t \in MuxTable :
        t.req = req[c] /\ t.index = indexFile /\ t.about = aboutFile).out

\* handleAccept after a successful parse (main.go 67-68): NewRouter, Mux, and
\* the handler Mux calls, with the assets as the handler finds them
Dispatch(c) ==
    /\ Running
    /\ pc[c] = "dispatching"
    /\ \E indexFile \in IndexFiles, aboutFile \in AboutFiles :
          /\ events' = [events EXCEPT ![c] = MuxOn(c, indexFile, aboutFile).events]
          /\ logs' = [logs EXCEPT ![c] = @ \o MuxOn(c, indexFile, aboutFile).logs]
          /\ asset' = [asset EXCEPT ![c] = MuxOn(c, indexFile, aboutFile).asset]
          /\ Store' = [Store EXCEPT ![c] = MuxOn(c, indexFile, aboutFile).Store]
          /\ ran' = [ran EXCEPT ![c] = MuxOn(c, indexFile, aboutFile).ran]
    /\ pc' = [pc EXCEPT ![c] = "done"]
    /\ UNCHANGED <<crash, stream, sent, closedW, req, input, result>>

Init ==
    /\ InitServer
    /\ input = NoInput
    /\ result = NotRun

Next ==
    \/ \E c \in Conns : Connect(c)
    \/ \E c \in Conns : Send(c)
    \/ \E c \in Conns : ShutWrite(c)
    \/ \E c \in Conns : Accept(c)
    \/ AcceptError
    \/ \E c \in Conns : Parse(c)
    \/ \E c \in Conns : ParsePanic(c)
    \/ \E c \in Conns : Dispatch(c)

Spec == Init /\ [][Next]_vars

\* the steps of main, and of the goroutine that handles connection c
Main == \E c \in Conns : Accept(c)

Handler(c) == Parse(c) \/ ParsePanic(c) \/ Dispatch(c)

\* the Go scheduler runs every runnable goroutine: main when a connection is
\* queued, and each handler whose read can return
Fairness == WF_vars(Main) /\ \A c \in Conns : WF_vars(Handler(c))

FairSpec == Init /\ [][Next]_vars /\ Fairness

(***************************************************************************)
(* Claims about the connection loop, checked under Spec and FairSpec.      *)
(***************************************************************************)
\* the server called Close on the conn of c
Closed(c) == \E i \in 1..Len(events[c]) : events[c][i].op = "Close"

\* the server wrote a response on the conn of c
Responded(c) == \E i \in 1..Len(events[c]) : events[c][i].op = "Write"

\* the server wrote a response with this status on the conn of c
RespondedWith(c, status) ==
    \E i \in 1..Len(events[c]) :
        /\ events[c][i].op = "Write"
        /\ HasPrefix(events[c][i].bytes, <<"H","T","T","P","/","1",".","1",SP>> \o Itoa(status) \o <<SP>>)

\* the routes of the server: GET /, GET /about, POST /
Routes == {<<GET, Root>>, <<GET, About>>, <<POST, Root>>}

\* C1: once the handling of an accepted connection has ended, whatever its
\* outcome, the server has closed the connection.
C1_HandledIsClosed ==
    \A c \in Conns : pc[c] = "done" => Closed(c)

\* C2: a parsed request that matches no route has been answered with 404 or
\* 405 when its handling ends.
C2_UnroutedGets404 ==
    \A c \in Conns :
        (pc[c] = "done" /\ req[c].kind = "ok" /\ <<req[c].Method, req[c].URI>> \notin Routes)
            => (RespondedWith(c, 404) \/ RespondedWith(c, 405))

\* C3: a POST / whose body is not JSON of the expected shape has been answered
\* with 400 when its handling ends.
C3_BadJsonGets400 ==
    \A c \in Conns :
        ( /\ pc[c] = "done" /\ req[c].kind = "ok"
          /\ req[c].Method = POST /\ req[c].URI = Root
          /\ req[c].Body = BadJson )
            => RespondedWith(c, 400)

\* C4: no failure in the handling of a connection ends the server process
\* (and with it the accept loop and every other connection).
C4_HandlerFailureIsLocal ==
    crash \notin Conns

\* a whole request that the handlers answer whatever the assets hold
AnsweredRequests ==
    { Request(<<GET, About, HTTP11>>, <<>>, <<>>),
      Request(<<POST, Root, HTTP11>>,
              <<Header(ContentLength, Itoa(Len(GoodJson)))>>, GoodJson) }

\* the handler of d waits in NewRequest for bytes that have not arrived
Stalled(d) ==
    pc[d] = "parsing" /\ NewRequestOn(d).kind = "block"

\* C5: a queued connection whose whole request has arrived is accepted and
\* answered, however long the handlers of other connections wait for their
\* requests (unless a panic ends the process first).
C5_SlowDoesNotBlockFast ==
    \A c \in Conns :
        (pc[c] = "pending" /\ sent[c] = 2 /\ stream[c].bytes \in AnsweredRequests)
            ~> (Responded(c) \/ crash # 0)

C5_Witness ==
    \E d, c \in Conns :
        /\ d < c
        /\ Stalled(d) /\ sent[d] = 1
        /\ pc[c] = "done" /\ Responded(c) /\ Closed(c)

Hello == <<"h","e","l","l","o">>

\* the handling of d has stored hello: its POST / with the body
\* {"input":"hello"} was answered with success
StoredHello(d) ==
    /\ pc[d] = "done" /\ req[d].kind = "ok"
    /\ req[d].Method = POST /\ req[d].URI = Root /\ req[d].Body = GoodJson
    /\ RespondedWith(d, 200)

\* C14: once a POST / with the body {"input":"hello"} has been handled with
\* success, a later read of the Store under the key data, as the handler of a
\* later GET / on another connection does it, finds "hello".
C14_StoredValueIsRead ==
    [][\A c \in Conns :
          ( /\ \E d \in Conns : d # c /\ StoredHello(d)
            /\ pc[c] = "dispatching" /\ pc'[c] = "done"
            /\ req[c].Method = GET /\ req[c].URI = Root )
              => (DataKey \in DOMAIN Store'[c] /\ Store'[c][DataKey] = Hello)]_vars

\* C15: when the asset file of GET /about or GET / is missing or unreadable,
\* the handler writes a 500 response and no 200 response with the empty
\* result of the failed read as its body.
C15_MissingAssetGets500 ==
    \A c \in Conns :
        (pc[c] = "done" /\ asset[c] = "missing")
            => (RespondedWith(c, 500) /\ ~RespondedWith(c, 200))

\* the Close calls and the Write calls made on the conn of c
Closes(c) == {i \in 1..Len(events[c]) : events[c][i].op = "Close"}

Writes(c) == {i \in 1..Len(events[c]) : events[c][i].op = "Write"}

\* C16: over the handling of a connection, whatever the request, the route
\* and the errors met, the server calls Close on it at most once.
C16_ClosedAtMostOnce ==
    \A c \in Conns : Cardinality(Closes(c)) <= 1

C16_Witness ==
    \E c \in Conns :
        /\ pc[c] = "done"
        /\ ran[c] = <<"handleIndexPage">>
        /\ Cardinality(Closes(c)) = 1

\* C17: once NewRequest has returned an error on a connection, the
\* dispatcher is not called for it and no response bytes are written to it:
\* its handling ends from parsing, without dispatching or responding.
C17_ParseErrorEndsHandling ==
    \A c \in Conns :
        req[c].kind = "err" =>
            /\ pc[c] = "done"
            /\ ran[c] = <<>>
            /\ events[c] = <<>>

C17_Witness ==
    \E c \in Conns :
        /\ req[c].kind = "err" /\ req[c].why = "contentLength"
        /\ pc[c] = "done"
        /\ logs[c] = <<"parse error">>

\* C18: each connection gets at most one response: Mux runs at most one
\* handler, the server writes at most once on the connection, only after a
\* successful parse, and never after it has closed the connection.
C18_AtMostOneResponse ==
    \A c \in Conns :
        /\ Len(ran[c]) <= 1
        /\ Cardinality(Writes(c)) <= 1
        /\ Responded(c) => req[c].kind = "ok"
        /\ \A i \in Writes(c) : \A j \in Closes(c) : i < j

C18_Witness ==
    \E c \in Conns :
        /\ pc[c] = "done"
        /\ ran[c] = <<"handleAboutPage">>
        /\ Cardinality(Writes(c)) = 1
        /\ Closed(c)

====
